---- MODULE Spec2Model ----
(***************************************************************************)
(* Model of internal/gitutil/gitutil.go: GetBranch, GetLastVersion and     *)
(* GetCommits over a local git repository (go-git object store and refs).  *)
(*                                                                         *)
(* Object ids: commit hashes are the positive integers 1..n, numbered in   *)
(* committer-time order (a parent is always older than its child, so the   *)
(* numbering ranges over every topological order of the history); the      *)
(* hashes of annotated tag objects are negative; EmptyHash is the string   *)
(* "" that GetCommits receives when there is no prior release.             *)
(***************************************************************************)
EXTENDS Integers, Sequences, FiniteSets, TLC

\* ------------------------------------------------------------ bounds
MaxCommits == 5
MaxMissing == 1
MaxTags == 4

\* ------------------------------------------------------------ program constants
\* the empty string, as a hash
EmptyHash == 0

\* the number of parents of a merge commit (len(c.ParentHashes) == 2)
MergeParents == 2

VARIABLES
    \* the repository (read-only input)
    parents,      \* commit hash -> ParentHashes, in order
    missing,      \* commit hashes whose object is not in the object store
    \* GetCommits
    lastTagHash,  \* the argument
    pcC,          \* "start" | "iter" | "done"
    heap,         \* the committer-time iterator's heap
    seen,         \* the committer-time iterator's seen set
    commits,      \* var commits []shared.Commit (hashes)
    foundEnd,     \* var foundEnd bool
    retCommits,   \* returned list
    retErr,       \* returned error: "nil" | "head" | "read"
    \* the tag references (read-only input), in the order Tags() yields them
    tagRefs,      \* records [name, hash, commit]
    \* GetLastVersion
    pcV,          \* "iter" | "resolve" | "done" ("idle": not called)
    tagIdx,       \* position of the tag iterator
    tags,         \* var tags []*semver.Version
    retVersion,   \* returned version: <<v>>, or <<>> for nil
    retHash,      \* returned hash string
    retVErr,      \* returned error
    \* the HEAD reference and the branch references (read-only input)
    headRef,      \* [type |-> "symbolic", target |-> name] or [type |-> "hash"]
    branchRefs,   \* the reference names under refs/heads/
    \* GetBranch
    pcB,          \* "start" | "iter" | "done"
    toVisit,      \* references the branch iterator has not yielded yet
    currentBranch,\* var currentBranch string
    retBranch,    \* returned branch name
    retBErr       \* returned error: <<>> for nil, else the message parts

varsC == <<parents, missing, lastTagHash, pcC, heap, seen, commits, foundEnd,
           retCommits, retErr>>

varsV == <<tagRefs, pcV, tagIdx, tags, retVersion, retHash, retVErr>>

varsB == <<headRef, branchRefs, pcB, toVisit, currentBranch, retBranch, retBErr>>

vars == <<varsC, varsV, varsB>>

\* ------------------------------------------------------------ helpers
Range(s) == {s[i] : i \in DOMAIN s}

\* sequences of length k of distinct elements of S
RECURSIVE DistinctSeqs(_, _)
DistinctSeqs(S, k) ==
    IF k = 0 THEN {<<>>}
    ELSE UNION {{Append(s, x) : x \in S \ Range(s)} : s \in DistinctSeqs(S, k - 1)}

\* the parent lists commit c may have: none (a root), one, or those of a merge
ParentLists(c) == UNION {DistinctSeqs(1..(c - 1), k) : k \in 0..MergeParents}

\* every history of n commits: commit c's parents are older commits
RECURSIVE Histories(_)
Histories(n) ==
    IF n = 0 THEN {<<>>}
    ELSE {Append(d, p) : d \in Histories(n - 1), p \in ParentLists(n)}

\* committer time of a commit (hashes are numbered in committer-time order)
When(c) == c

HeadHash == Len(parents)

HeadReadable == Len(parents) > 0

CommitObject(h) == h \notin missing

RECURSIVE AncestorsOrSelf(_, _)
AncestorsOrSelf(d, S) ==
    LET N == S \cup UNION {Range(d[c]) : c \in S}
    IN  IF N = S THEN S ELSE AncestorsOrSelf(d, N)

\* ------------------------------------------------------------ semver
\* Strings are sequences of one-character strings.  Bytes lists the
\* characters used, in byte order.
Bytes == <<"+", "-", ".", "0", "1", "2", "9", "a", "c", "e", "i", "n", "o",
           "r", "s", "t", "v">>

Digits == {"0", "1", "2", "9"}

CharCode(ch) == CHOOSE i \in DOMAIN Bytes : Bytes[i] = ch

DigitVal(ch) == CASE ch = "0" -> 0 [] ch = "1" -> 1 [] ch = "2" -> 2 [] ch = "9" -> 9

Letters == {"a", "c", "e", "i", "n", "o", "r", "s", "t", "v"}

IsIdentChar(ch) == ch \in Digits \cup Letters \cup {"-"}

\* index after the run of digits of s that starts at i
RECURSIVE DigitsEnd(_, _)
DigitsEnd(s, i) ==
    IF i <= Len(s) /\ s[i] \in Digits THEN DigitsEnd(s, i + 1) ELSE i

\* strconv.ParseInt of s[i..j-1]
RECURSIVE ParseInt(_, _, _)
ParseInt(s, i, j) ==
    IF j <= i THEN 0 ELSE 10 * ParseInt(s, i, j - 1) + DigitVal(s[j - 1])

\* index after  [0-9A-Za-z\-]+(\.[0-9A-Za-z\-]+)*  matched from i (i if no match)
RECURSIVE IdentsEnd(_, _)
IdentsEnd(s, i) ==
    LET RECURSIVE run(_)
        run(j) == IF j <= Len(s) /\ IsIdentChar(s[j]) THEN run(j + 1) ELSE j
        e == run(i)
    IN  IF e = i THEN i
        ELSE IF e <= Len(s) /\ s[e] = "." /\ IdentsEnd(s, e + 1) > e + 1
             THEN IdentsEnd(s, e + 1)
             ELSE e

\* index after  (\.[0-9]+)?  matched from i
DotNumEnd(s, i) ==
    IF i <= Len(s) /\ s[i] = "." /\ DigitsEnd(s, i + 1) > i + 1
    THEN DigitsEnd(s, i + 1) ELSE i

\* index after  (<mark>idents)?  matched from i
MarkedEnd(s, i, mark) ==
    IF i <= Len(s) /\ s[i] = mark /\ IdentsEnd(s, i + 1) > i + 1
    THEN IdentsEnd(s, i + 1) ELSE i

\* semver.NewVersion: <<v>> on success, <<>> on ErrInvalidSemVer
NewVersion(s) ==
    LET i0 == IF Len(s) >= 1 /\ s[1] = "v" THEN 2 ELSE 1
        i1 == DigitsEnd(s, i0)
        i2 == DotNumEnd(s, i1)
        i3 == DotNumEnd(s, i2)
        i4 == MarkedEnd(s, i3, "-")
        i5 == MarkedEnd(s, i4, "+")
    IN  IF i1 > i0 /\ i5 = Len(s) + 1
        THEN << [major |-> ParseInt(s, i0, i1),
                 minor |-> IF i2 > i1 THEN ParseInt(s, i1 + 1, i2) ELSE 0,
                 patch |-> IF i3 > i2 THEN ParseInt(s, i2 + 1, i3) ELSE 0,
                 pre |-> IF i4 > i3 THEN SubSeq(s, i3 + 1, i4 - 1) ELSE <<>>,
                 metadata |-> IF i5 > i4 THEN SubSeq(s, i4 + 1, i5 - 1) ELSE <<>>,
                 original |-> s] >>
        ELSE <<>>

\* strings.Split(s, ".")
RECURSIVE Split(_)
Split(s) ==
    LET RECURSIVE dot(_)
        dot(j) == IF j <= Len(s) /\ s[j] # "." THEN dot(j + 1) ELSE j
        e == dot(1)
    IN  IF e > Len(s) THEN <<s>>
        ELSE <<SubSeq(s, 1, e - 1)>> \o Split(SubSeq(s, e + 1, Len(s)))

\* Go's s > o on strings: byte-wise lexicographic
RECURSIVE StrGreater(_, _)
StrGreater(s, o) ==
    IF s = <<>> THEN FALSE
    ELSE IF o = <<>> THEN TRUE
    ELSE IF s[1] # o[1] THEN CharCode(s[1]) > CharCode(o[1])
    ELSE StrGreater(Tail(s), Tail(o))

IsNumber(s) == s # <<>> /\ \A i \in DOMAIN s : s[i] \in Digits

compareSegment(v, o) == IF v < o THEN -1 ELSE IF v > o THEN 1 ELSE 0

comparePrePart(s, o) ==
    IF s = o THEN 0
    ELSE IF s = <<>> THEN -1
    ELSE IF o = <<>> THEN 1
    ELSE IF ~IsNumber(o) /\ ~IsNumber(s) THEN (IF StrGreater(s, o) THEN 1 ELSE -1)
    ELSE IF ~IsNumber(o) THEN -1
    ELSE IF ~IsNumber(s) THEN 1
    ELSE IF ParseInt(s, 1, Len(s) + 1) > ParseInt(o, 1, Len(o) + 1) THEN 1 ELSE -1

comparePrerelease(v, o) ==
    LET sparts == Split(v)
        oparts == Split(o)
        l == IF Len(sparts) > Len(oparts) THEN Len(sparts) ELSE Len(oparts)
        part(ps, i) == IF i <= Len(ps) THEN ps[i] ELSE <<>>
        RECURSIVE loop(_)
        loop(i) ==
            IF i > l THEN 0
            ELSE IF comparePrePart(part(sparts, i), part(oparts, i)) # 0
                 THEN comparePrePart(part(sparts, i), part(oparts, i))
                 ELSE loop(i + 1)
    IN  loop(1)

\* Version.Compare
Compare(v, o) ==
    IF compareSegment(v.major, o.major) # 0 THEN compareSegment(v.major, o.major)
    ELSE IF compareSegment(v.minor, o.minor) # 0 THEN compareSegment(v.minor, o.minor)
    ELSE IF compareSegment(v.patch, o.patch) # 0 THEN compareSegment(v.patch, o.patch)
    ELSE IF v.pre = <<>> /\ o.pre = <<>> THEN 0
    ELSE IF v.pre = <<>> THEN 1
    ELSE IF o.pre = <<>> THEN -1
    ELSE comparePrerelease(v.pre, o.pre)

\* sort.Sort without sort.Reverse: ascending
SortedAscending(l) ==
    {[i \in DOMAIN l |-> l[f[i]]] :
        f \in {g \in [DOMAIN l -> DOMAIN l] :
                 /\ \A i, j \in DOMAIN l : i # j => g[i] # g[j]
                 /\ \A i, j \in DOMAIN l :
                        i < j => Compare(l[g[i]], l[g[j]]) <= 0}}

\* sort.Sort(sort.Reverse(semver.Collection(l))): the sort is not stable, so
\* every descending arrangement of l is a possible outcome
SortedReverse(l) ==
    {[i \in DOMAIN l |-> l[f[i]]] :
        f \in {g \in [DOMAIN l -> DOMAIN l] :
                 /\ \A i, j \in DOMAIN l : i # j => g[i] # g[j]
                 /\ \A i, j \in DOMAIN l :
                        i < j => Compare(l[g[i]], l[g[j]]) >= 0}}

\* ------------------------------------------------------------ GetCommits
\* getParents: every readable parent is appended; only single-parent commits
\* are expanded further
RECURSIVE getParents(_)
getParents(current) ==
    LET ph == parents[current]
        RECURSIVE loop(_)
        loop(i) ==
            IF i > Len(ph) THEN <<>>
            ELSE IF ~CommitObject(ph[i]) THEN loop(i + 1)
            ELSE <<ph[i]>>
                 \o (IF Len(parents[ph[i]]) = 1 THEN getParents(ph[i]) ELSE <<>>)
                 \o loop(i + 1)
    IN  loop(1)

\* the ForEach callback's appends for a commit that is not the boundary
Recorded(c) ==
    <<c>> \o
    (IF Len(parents[c]) = MergeParents /\ CommitObject(parents[c][2])
     THEN <<parents[c][2]>> \o getParents(parents[c][2])
     ELSE <<>>)

\* a first-parent walk instead of the walk over all parents
NextParentsFirstOnly(c) ==
    {h \in Range(parents[c]) : h = parents[c][1] /\ h \notin seen}

\* parents the iterator loads after popping c
NextParents(c) == {h \in Range(parents[c]) : h \notin seen}

\* the commit the committer-time heap pops next
HeapTop == CHOOSE c \in heap : \A d \in heap : When(d) <= When(c)

InitRepoC ==
    \E n \in 0..MaxCommits :
      /\ parents \in Histories(n)
      /\ AncestorsOrSelf(parents, {n} \ {0}) = 1..n
      /\ missing \in {m \in SUBSET (1..(n - 1)) : Cardinality(m) <= MaxMissing}
      /\ lastTagHash \in {EmptyHash, -1} \cup (1..n)

IdleV ==
    /\ tagRefs = <<>>
    /\ pcV = "idle"
    /\ tagIdx = 1
    /\ tags = <<>>
    /\ retVersion = <<>>
    /\ retHash = EmptyHash
    /\ retVErr = "nil"

IdleB ==
    /\ headRef = [type |-> "hash"]
    /\ branchRefs = {}
    /\ pcB = "idle"
    /\ toVisit = {}
    /\ currentBranch = <<>>
    /\ retBranch = <<>>
    /\ retBErr = <<>>

IdleC ==
    /\ parents = <<>>
    /\ missing = {}
    /\ lastTagHash = EmptyHash
    /\ pcC = "idle"
    /\ heap = {}
    /\ seen = {}
    /\ commits = <<>>
    /\ foundEnd = FALSE
    /\ retCommits = <<>>
    /\ retErr = "nil"

InitC ==
    /\ InitRepoC
    /\ IdleV
    /\ IdleB
    /\ pcC = "start"
    /\ heap = {}
    /\ seen = {}
    /\ commits = <<>>
    /\ foundEnd = FALSE
    /\ retCommits = <<>>
    /\ retErr = "nil"

\* g.Repository.Head() fails
GetCommitsHeadErr ==
    /\ pcC = "start"
    /\ ~HeadReadable
    /\ pcC' = "done"
    /\ retCommits' = <<>>
    /\ retErr' = "head"
    /\ UNCHANGED <<parents, missing, lastTagHash, heap, seen, commits, foundEnd>>
    /\ UNCHANGED <<varsV, varsB>>

\* Head() and Log(): the iterator starts with HEAD's commit on the heap
GetCommitsLog ==
    /\ pcC = "start"
    /\ HeadReadable
    /\ pcC' = "iter"
    /\ heap' = {HeadHash}
    /\ UNCHANGED <<parents, missing, lastTagHash, seen, commits, foundEnd,
                   retCommits, retErr>>
    /\ UNCHANGED <<varsV, varsB>>

\* Next() returns io.EOF: ForEach ends, GetCommits returns commits, nil
IterEOF ==
    /\ pcC = "iter"
    /\ heap = {}
    /\ pcC' = "done"
    /\ retCommits' = commits
    /\ retErr' = "nil"
    /\ UNCHANGED <<parents, missing, lastTagHash, heap, seen, commits, foundEnd>>
    /\ UNCHANGED <<varsV, varsB>>

\* Next() cannot load a parent of the popped commit: ForEach returns the error
IterReadErr ==
    /\ pcC = "iter"
    /\ heap # {}
    /\ \E h \in NextParents(HeapTop) : ~CommitObject(h)
    /\ pcC' = "done"
    /\ seen' = seen \cup {HeapTop}
    /\ heap' = heap \ {HeapTop}
    /\ retCommits' = commits
    /\ retErr' = "read"
    /\ UNCHANGED <<parents, missing, lastTagHash, commits, foundEnd>>
    /\ UNCHANGED <<varsV, varsB>>

\* the callback meets lastTagHash: storer.ErrStop ends ForEach without error
IterStop ==
    /\ pcC = "iter"
    /\ heap # {}
    /\ \A h \in NextParents(HeapTop) : CommitObject(h)
    /\ HeapTop = lastTagHash
    /\ pcC' = "done"
    /\ seen' = seen \cup {HeapTop}
    /\ heap' = (heap \ {HeapTop}) \cup NextParents(HeapTop)
    /\ foundEnd' = TRUE
    /\ retCommits' = commits
    /\ retErr' = "nil"
    /\ UNCHANGED <<parents, missing, lastTagHash, commits>>
    /\ UNCHANGED <<varsV, varsB>>

\* the callback records the commit and, for a merge, its second parent's side
IterRecord ==
    /\ pcC = "iter"
    /\ heap # {}
    /\ \A h \in NextParents(HeapTop) : CommitObject(h)
    /\ HeapTop # lastTagHash
    /\ seen' = seen \cup {HeapTop}
    /\ heap' = (heap \ {HeapTop}) \cup NextParents(HeapTop)
    /\ commits' = IF ~foundEnd THEN commits \o Recorded(HeapTop) ELSE commits
    /\ UNCHANGED <<parents, missing, lastTagHash, pcC, foundEnd, retCommits, retErr>>
    /\ UNCHANGED <<varsV, varsB>>

NextC ==
    \/ GetCommitsHeadErr
    \/ GetCommitsLog
    \/ IterEOF
    \/ IterReadErr
    \/ IterStop
    \/ IterRecord

SpecCommits == InitC /\ [][NextC]_vars

\* ------------------------------------------------------------ properties of GetCommits
DoneC == pcC = "done"

NoDuplicates(s) == \A i, j \in DOMAIN s : i # j => s[i] # s[j]

Occurrences(s, h) == Cardinality({i \in DOMAIN s : s[i] = h})

\* commits reachable from HEAD
Reachable == AncestorsOrSelf(parents, {HeadHash} \ {0})

\* commits reachable from HEAD through objects that are in the object store
RECURSIVE StoredFrom(_)
StoredFrom(S) ==
    LET N == S \cup {h \in UNION {Range(parents[c]) : c \in S} : CommitObject(h)}
    IN  IF N = S THEN S ELSE StoredFrom(N)

StoredReachable == StoredFrom({HeadHash} \ {0})

\* the boundary commit and its ancestors
Released == AncestorsOrSelf(parents, {lastTagHash})

\* the first-parent chain from c down to (excluding) the commit stop
RECURSIVE Mainline(_, _)
Mainline(c, stop) ==
    IF c = stop THEN {}
    ELSE IF parents[c] = <<>> THEN {c}
    ELSE {c} \cup Mainline(parents[c][1], stop)

\* hashes whose object line 158 or getParents (line 186) may ask the store for
RECURSIVE getParentsReads(_)
getParentsReads(c) ==
    Range(parents[c]) \cup
    UNION {getParentsReads(h) : h \in {x \in Range(parents[c]) :
                                          CommitObject(x) /\ Len(parents[x]) = 1}}

MergeSideReads ==
    UNION {{parents[c][2]} \cup
           (IF CommitObject(parents[c][2]) THEN getParentsReads(parents[c][2]) ELSE {}) :
           c \in {x \in StoredReachable : Len(parents[x]) = 2}}

\* C1 (uniqueness): the list GetCommits returns never holds the same hash
\* twice; stated here for calls that return no error on a complete object store.
C1_Uniqueness ==
    (DoneC /\ retErr = "nil" /\ missing = {}) => NoDuplicates(retCommits)

\* C2 (boundary exclusivity): with a boundary that is a commit reachable from
\* HEAD, neither the boundary commit nor any of its ancestors is in the result.
C2_BoundaryExclusive ==
    (DoneC /\ retErr = "nil" /\ missing = {} /\ lastTagHash \in Reachable)
        => Range(retCommits) \cap Released = {}

\* C3 (completeness): with a boundary that is a commit reachable from HEAD, the
\* result holds exactly the commits reachable from HEAD that are not the
\* boundary or one of its ancestors.
C3_Completeness ==
    (DoneC /\ retErr = "nil" /\ missing = {} /\ lastTagHash \in Reachable)
        => Range(retCommits) = Reachable \ Released

\* the case of C4: HEAD is a merge of a mainline P1 and a feature branch of two
\* commits with tip P2, and the boundary is an ancestor of P1 only
MergeCase ==
    /\ HeadReadable
    /\ missing = {}
    /\ Len(parents[HeadHash]) = 2
    /\ LET P1 == parents[HeadHash][1]
           P2 == parents[HeadHash][2]
       IN  /\ Len(parents[P2]) = 1
           /\ lastTagHash \in AncestorsOrSelf(parents, {P1}) \ {P1}
           /\ lastTagHash \notin AncestorsOrSelf(parents, {P2})
           /\ lastTagHash \in Mainline(P1, 0)
           /\ \A c \in Mainline(P1, lastTagHash) : Len(parents[c]) = 1

MergeCaseExpected ==
    LET P1 == parents[HeadHash][1]
        P2 == parents[HeadHash][2]
    IN  {HeadHash} \cup Mainline(P1, lastTagHash) \cup {P2, parents[P2][1]}

\* C4 (merge inclusion): in the merge case the result holds the merge commit,
\* the mainline commits newer than the boundary and both feature-branch
\* commits, each exactly once.
C4_MergeInclusion ==
    (DoneC /\ MergeCase)
        => \A h \in MergeCaseExpected : Occurrences(retCommits, h) = 1

C9_NoPartialResult ==
    (DoneC /\ retErr # "nil") => retCommits = <<>>

\* C10 (unreadable merge parents are tolerated): when the only objects missing
\* from the store are ones the merge-parent traversal asks for (a merge
\* commit's second parent, or a parent met by getParents), GetCommits returns
\* no error.
C10_MergeParentsTolerated ==
    (DoneC /\ HeadReadable /\ missing # {} /\ missing \subseteq MergeSideReads)
        => retErr = "nil"

\* ------------------------------------------------------------ GetLastVersion
\* short names of the tag references a repository may hold
TagNames ==
    << <<"v", "1", ".", "2", ".", "0">>,
       <<"v", "2", ".", "0", ".", "0", "-", "r", "c", ".", "1">>,
       <<"n", "o", "t", "-", "a", "-", "v", "e", "r", "s", "i", "o", "n">>,
       <<"v", "1", ".", "9", ".", "9">>,
       <<"2", ".", "0", ".", "0", "-", "r", "c", ".", "1">>,
       <<"v", "1", ".", "1", "0", ".", "0">>,
       <<"v", "2", ".", "0", ".", "0", "-", "r", "c">>,
       <<"v", "2", ".", "0", ".", "0", "-", "9">>,
       <<"v", "1", ".">> >>

\* a tag reference: lightweight (the ref targets the commit) or annotated (the
\* ref targets a tag object, which targets the commit)
TagRef(i, annotated) ==
    [name |-> TagNames[i], hash |-> IF annotated THEN -i ELSE i, commit |-> i]

\* the references of a set of tags, in storage order
RECURSIVE RefList(_, _)
RefList(S, A) ==
    IF S = {} THEN <<>>
    ELSE LET i == CHOOSE x \in S : \A y \in S : x <= y
         IN  <<TagRef(i, i \in A)>> \o RefList(S \ {i}, A)

InitV ==
    /\ IdleC
    /\ IdleB
    /\ \E S \in {T \in SUBSET DOMAIN TagNames : Cardinality(T) <= MaxTags} :
         \E A \in SUBSET S : tagRefs = RefList(S, A)
    /\ pcV = "iter"
    /\ tagIdx = 1
    /\ tags = <<>>
    /\ retVersion = <<>>
    /\ retHash = EmptyHash
    /\ retVErr = "nil"

\* the ForEach callback on a tag whose short name parses
TagParsed ==
    /\ pcV = "iter"
    /\ tagIdx <= Len(tagRefs)
    /\ NewVersion(tagRefs[tagIdx].name) # <<>>
    /\ tags' = tags \o NewVersion(tagRefs[tagIdx].name)
    /\ tagIdx' = tagIdx + 1
    /\ UNCHANGED <<tagRefs, pcV, retVersion, retHash, retVErr>>
    /\ UNCHANGED <<varsC, varsB>>

\* the ForEach callback on a tag that is not a valid version: skipped
TagSkipped ==
    /\ pcV = "iter"
    /\ tagIdx <= Len(tagRefs)
    /\ NewVersion(tagRefs[tagIdx].name) = <<>>
    /\ tagIdx' = tagIdx + 1
    /\ UNCHANGED <<tagRefs, pcV, tags, retVersion, retHash, retVErr>>
    /\ UNCHANGED <<varsC, varsB>>

\* ForEach is over: sort descending; no tags returns nil, "", nil
TagsSort ==
    /\ pcV = "iter"
    /\ tagIdx > Len(tagRefs)
    /\ tags' \in SortedReverse(tags)
    /\ IF Len(tags) = 0
       THEN /\ pcV' = "done"
            /\ retVersion' = <<>>
            /\ retHash' = EmptyHash
            /\ retVErr' = "nil"
       ELSE /\ pcV' = "resolve"
            /\ UNCHANGED <<retVersion, retHash, retVErr>>
    /\ UNCHANGED <<tagRefs, tagIdx>>
    /\ UNCHANGED <<varsC, varsB>>

\* Repository.Tag(name): the reference refs/tags/<name>
RepositoryTag(name) == {r \in Range(tagRefs) : r.name = name}

\* the hash GetLastVersion returns for the reference of the last version
ResolvedHash(ref) == ref.hash

\* Repository.Tag(tags[0].Original()) and the return
TagResolve ==
    /\ pcV = "resolve"
    /\ pcV' = "done"
    /\ IF RepositoryTag(tags[1].original) = {}
       THEN /\ retVersion' = <<>>
            /\ retHash' = EmptyHash
            /\ retVErr' = "tag"
       ELSE \E ref \in RepositoryTag(tags[1].original) :
            /\ retVersion' = <<tags[1]>>
            /\ retHash' = ResolvedHash(ref)
            /\ retVErr' = "nil"
    /\ UNCHANGED <<tagRefs, tagIdx, tags>>
    /\ UNCHANGED <<varsC, varsB>>

NextV ==
    \/ TagParsed
    \/ TagSkipped
    \/ TagsSort
    \/ TagResolve

SpecVersion == InitV /\ [][NextV]_vars

\* ------------------------------------------------------------ properties of GetLastVersion
DoneV == pcV = "done"

\* the tag references whose short name parses as a version
ValidTags == {r \in Range(tagRefs) : NewVersion(r.name) # <<>>}

ExampleTags == {TagNames[1], TagNames[2], TagNames[3], TagNames[4]}

\* C6 (version selection): the returned version is the version of a tag of the
\* repository that parses, no parsing tag has higher precedence, tags that do
\* not parse cause no error; v1.2.0, v2.0.0-rc.1, not-a-version, v1.9.9 give
\* v2.0.0-rc.1; without a parsing tag the result is (nil, "", nil).
C6_VersionSelection ==
    DoneV =>
      /\ retVErr = "nil"
      /\ ValidTags = {} => (retVersion = <<>> /\ retHash = EmptyHash)
      /\ ValidTags # {} =>
           /\ retVersion # <<>>
           /\ \E r \in ValidTags : NewVersion(r.name) = retVersion
           /\ \A q \in ValidTags : Compare(NewVersion(q.name)[1], retVersion[1]) <= 0
      /\ {r.name : r \in Range(tagRefs)} = ExampleTags =>
           /\ retVersion # <<>>
           /\ retVersion[1].original = TagNames[2]
           /\ <<retVersion[1].major, retVersion[1].minor, retVersion[1].patch>>
                = <<2, 0, 0>>

C6_Witness ==
    /\ DoneV
    /\ {r.name : r \in Range(tagRefs)} = ExampleTags
    /\ retVersion # <<>>
    /\ retVersion[1].original = TagNames[2]

\* C7 (tag dereference): the hash returned with the last version is the hash
\* of the commit its tag points to, for lightweight and for annotated tags.
C7_TagDereference ==
    (DoneV /\ retVersion # <<>>) =>
        \E r \in Range(tagRefs) :
            r.name = retVersion[1].original /\ retHash = r.commit

\* ------------------------------------------------------------ GetBranch
\* Reference names are sequences of path components.
BranchNames ==
    { <<"refs", "heads", "master">>,
      <<"refs", "heads", "release", "1.0">>,
      <<"refs", "heads", "origin">>,
      <<"refs", "heads", "origin", "fix">> }

HEAD == <<"HEAD">>

HasPrefix(name, prefix) ==
    Len(name) >= Len(prefix) /\ SubSeq(name, 1, Len(prefix)) = prefix

\* ReferenceName.IsBranch
IsBranch(name) == HasPrefix(name, <<"refs", "heads">>)

\* ReferenceName.Short
Short(name) ==
    IF \/ HasPrefix(name, <<"refs", "heads">>)
       \/ HasPrefix(name, <<"refs", "tags">>)
       \/ HasPrefix(name, <<"refs", "remotes">>)
    THEN SubSeq(name, 3, Len(name))
    ELSE IF HasPrefix(name, <<"refs">>) THEN SubSeq(name, 2, Len(name))
    ELSE name

\* Repository.Head(): the reference HEAD resolves to, <<>> when it cannot be
\* resolved (a symbolic HEAD whose target does not exist)
RepositoryHead ==
    IF headRef.type = "hash" THEN <<HEAD>>
    ELSE IF headRef.target \in branchRefs THEN <<headRef.target>>
    ELSE <<>>

\* the test without the exclusion of "origin"
QualifiesAnyBranch(p) == IsBranch(p)

\* the ForEach callback's test of a branch reference
Qualifies(p) == IsBranch(p) /\ Short(p) # <<"origin">>

NoBranchFound(name) ==
    <<"no branch found, found ", name,
      ", please checkout a branch (git checkout -b <BRANCH>)">>

InitB ==
    /\ IdleC
    /\ IdleV
    /\ branchRefs \in SUBSET BranchNames
    /\ headRef \in {[type |-> "hash"]} \cup
                   {[type |-> "symbolic", target |-> b] : b \in BranchNames}
    /\ pcB = "start"
    /\ toVisit = {}
    /\ currentBranch = <<>>
    /\ retBranch = <<>>
    /\ retBErr = <<>>

\* Head() fails
GetBranchHeadErr ==
    /\ pcB = "start"
    /\ RepositoryHead = <<>>
    /\ pcB' = "done"
    /\ retBranch' = <<>>
    /\ retBErr' = <<"reference not found">>
    /\ UNCHANGED <<headRef, branchRefs, toVisit, currentBranch>>
    /\ UNCHANGED <<varsC, varsV>>

\* HEAD resolves to a branch reference: its short name is returned
GetBranchFromHead ==
    /\ pcB = "start"
    /\ RepositoryHead # <<>>
    /\ IsBranch(RepositoryHead[1])
    /\ pcB' = "done"
    /\ retBranch' = Short(RepositoryHead[1])
    /\ retBErr' = <<>>
    /\ UNCHANGED <<headRef, branchRefs, toVisit, currentBranch>>
    /\ UNCHANGED <<varsC, varsV>>

\* HEAD is not a branch reference: Branches() is enumerated
GetBranchEnumerate ==
    /\ pcB = "start"
    /\ RepositoryHead # <<>>
    /\ ~IsBranch(RepositoryHead[1])
    /\ pcB' = "iter"
    /\ toVisit' = branchRefs
    /\ UNCHANGED <<headRef, branchRefs, currentBranch, retBranch, retBErr>>
    /\ UNCHANGED <<varsC, varsV>>

\* the callback on a qualifying reference: break, and return its short name
BranchFound ==
    /\ pcB = "iter"
    /\ \E p \in toVisit :
         /\ Qualifies(p)
         /\ currentBranch' = Short(p)
         /\ toVisit' = toVisit \ {p}
         /\ retBranch' = Short(p)
    /\ pcB' = "done"
    /\ retBErr' = <<>>
    /\ UNCHANGED <<headRef, branchRefs>>
    /\ UNCHANGED <<varsC, varsV>>

\* the callback on a reference that does not qualify: the iteration goes on
BranchSkipped ==
    /\ pcB = "iter"
    /\ \E p \in toVisit :
         /\ ~Qualifies(p)
         /\ toVisit' = toVisit \ {p}
    /\ UNCHANGED <<headRef, branchRefs, pcB, currentBranch, retBranch, retBErr>>
    /\ UNCHANGED <<varsC, varsV>>

\* the iteration ends without a break: no branch found
BranchNotFound ==
    /\ pcB = "iter"
    /\ toVisit = {}
    /\ pcB' = "done"
    /\ retBranch' = <<>>
    /\ retBErr' = NoBranchFound(RepositoryHead[1])
    /\ UNCHANGED <<headRef, branchRefs, toVisit, currentBranch>>
    /\ UNCHANGED <<varsC, varsV>>

NextB ==
    \/ GetBranchHeadErr
    \/ GetBranchFromHead
    \/ GetBranchEnumerate
    \/ BranchFound
    \/ BranchSkipped
    \/ BranchNotFound

SpecBranch == InitB /\ [][NextB]_vars

\* ------------------------------------------------------------ properties of GetBranch
DoneB == pcB = "done"

Detached == headRef.type = "hash"

\* the local branches a detached HEAD may fall back to, by short name
Fallbacks ==
    {b \in { <<"master">>, <<"release", "1.0">>, <<"origin", "fix">> } :
        <<"refs", "heads">> \o b \in branchRefs}

\* C8 (branch resolution), for a HEAD that Head() can resolve: a symbolic HEAD
\* gives the short name of its branch; a detached HEAD gives the short name of
\* a local branch other than "origin" (release/1.0 when that is the only
\* one), and without such a branch no name and the no-branch-found error, whose
\* message holds the raw name of the HEAD reference.
C8_BranchResolution ==
    (DoneB /\ RepositoryHead # <<>>) =>
      /\ ~Detached =>
           /\ retBErr = <<>>
           /\ <<"refs", "heads">> \o retBranch = headRef.target
      /\ (Detached /\ Fallbacks # {}) =>
           /\ retBErr = <<>>
           /\ retBranch \in Fallbacks
      /\ (Detached /\ branchRefs = {<<"refs", "heads", "release", "1.0">>}) =>
           retBranch = <<"release", "1.0">>
      /\ (Detached /\ Fallbacks = {}) =>
           /\ retBranch = <<>>
           /\ retBErr # <<>>
           /\ retBErr[1] = "no branch found, found "
           /\ retBErr[2] = <<"HEAD">>

C8_Witness ==
    /\ DoneB
    /\ Detached
    /\ branchRefs = {<<"refs", "heads", "origin">>, <<"refs", "heads", "release", "1.0">>}
    /\ retBranch = <<"release", "1.0">>
    /\ toVisit = {}

====
